---- MODULE Spec2Model ----
(***************************************************************************)
(* EventDiscoveryForm (event-hunter/src/EventDiscoveryForm.tsx): the form  *)
(* component, its WebSocket handlers and the stream classifier, as a state *)
(* machine.  The WebSocket and the backend behind it are the environment:  *)
(* the socket fires open / message / error / close events and the backend  *)
(* may put any frame on an open channel.                                   *)
(***************************************************************************)
EXTENDS Integers, Sequences, FiniteSets, TLC

VARIABLES
    mounted,       \* the component is mounted: its state and handlers are live
    formData,      \* useState<EventFormData>
    result,        \* useState<string>('')
    isConnected,   \* useState(false)
    isLoading,     \* useState(false)
    error,         \* useState<string>('')
    readyState,    \* the socket behind wsRef.current
    sent,          \* the messages handed to wsRef.current.send, oldest first
    outstanding,   \* history: queries sent since the last complete / error frame
    cycle,         \* history: progress of a start, stream*, complete sequence
    lastEvent      \* history: the event handled last

vars == <<mounted, formData, result, isConnected, isLoading, error, readyState, sent,
          outstanding, cycle, lastEvent>>

uiState == <<isConnected, isLoading, result, error>>

-----------------------------------------------------------------------------
(* Bounds of the model *)

\* handleSubmit is not explored once this many messages were sent
MaxSent == 2

\* the longest run of filler characters in a fragment exceeds the
\* classifier's length threshold by this much
PadOver == 1

-----------------------------------------------------------------------------
(* Strings *)

\* String.prototype.includes
includes(s, sub) ==
    \E i \in 1..(Len(s) - Len(sub) + 1) : SubSeq(s, i, i + Len(sub) - 1) = sub

RECURSIVE Pad(_)
\* n filler characters, none of which starts or continues a marker
Pad(n) == IF n <= 0 THEN "" ELSE "x" \o Pad(n - 1)

-----------------------------------------------------------------------------
(* The stream classifier *)

LengthThreshold == 100

NoiseMarkers == {"Tool Calls:", "call_", "===", "Agent", "Running"}

isToolCallContent(content) ==
    \/ includes(content, "Tool Calls:")
    \/ includes(content, "call_")
    \/ includes(content, "===")
    \/ includes(content, "Agent")
    \/ includes(content, "Running")

\* the escape tests gated by the noise test
isFinalResponse_noiseFirst(content) ==
    /\ ~isToolCallContent(content)
    /\ \/ includes(content, "**Event Name**:")
       \/ includes(content, "## ")
       \/ Len(content) > LengthThreshold

\* the length test including the threshold itself
isFinalResponse_atLeast(content) ==
    \/ includes(content, "**Event Name**:")
    \/ includes(content, "## ")
    \/ (Len(content) >= LengthThreshold /\ ~isToolCallContent(content))

\* the length test dropped: only the escape markers accept
isFinalResponse_escapesOnly(content) ==
    \/ includes(content, "**Event Name**:")
    \/ includes(content, "## ")

isFinalResponse(content) ==
    \/ includes(content, "**Event Name**:")
    \/ includes(content, "## ")
    \/ (Len(content) > LengthThreshold /\ ~isToolCallContent(content))

-----------------------------------------------------------------------------
(* Inbound frames *)

Escapes == {"**Event Name**:", "## "}

\* lengths of filler around the classifier's threshold
PadLens == LengthThreshold .. LengthThreshold + PadOver

\* the fragments the backend is taken to stream
Fragments ==
    \* filler only: at most and more than LengthThreshold characters
    { Pad(n) : n \in {0} \cup PadLens }
    \* a noise marker, alone or followed by filler
    \cup { m \o Pad(n) : m \in NoiseMarkers, n \in {0} \cup {LengthThreshold + PadOver} }
    \* an escape marker, alone or after a noise marker or after filler
    \cup { h \o e \o " Foo" : h \in {"", "Tool Calls: ", Pad(LengthThreshold)}, e \in Escapes }
    \* the near miss "##", alone and after filler
    \cup { Pad(n) \o "##" : n \in {0, LengthThreshold} }

\* isFinalResponse of every fragment, evaluated once
finalResponseOf == [f \in Fragments |-> isFinalResponse(f)]

\* data.message of an error frame: absent, empty or a text
Messages == {"", "Agent crashed"}

Frame(type, content, hasMessage, message) ==
    [type |-> type, content |-> content, hasMessage |-> hasMessage, message |-> message]

Frames ==
    {Frame(t, "", FALSE, "") : t \in {"start", "complete", "error", "ping"}}
    \cup {Frame("error", "", TRUE, m) : m \in Messages}
    \cup {Frame("stream", f, FALSE, "") : f \in Fragments}

NoFrame == Frame("", "", FALSE, "")

Event(kind, frame) == [kind |-> kind, frame |-> frame]

\* phase "started" after a start frame and while only stream frames follow it,
\* "completed" when a complete frame ends such a run; accepted is the last
\* fragment of the run the classifier accepted, "" if none
Cycle(phase, accepted) == [phase |-> phase, accepted |-> accepted]

NoCycle == Cycle("none", "")

cycleAfter(data) ==
    IF data.type = "start" THEN Cycle("started", "")
    ELSE IF data.type = "stream" /\ cycle.phase = "started"
    THEN Cycle("started", IF finalResponseOf[data.content] THEN data.content
                          ELSE cycle.accepted)
    ELSE IF data.type = "complete" /\ cycle.phase = "started"
    THEN Cycle("completed", cycle.accepted)
    ELSE NoCycle

-----------------------------------------------------------------------------
(* The form *)

Date(y, m, d) == [y |-> y, m |-> m, d |-> d]

NoDate == Date(0, 0, 0)

\* formData.dateRange: undefined, or {from, to} with either date undefined
DateRange(defined, from, to) == [defined |-> defined, from |-> from, to |-> to]

NoRange == DateRange(FALSE, NoDate, NoDate)

MonthNames ==
    <<"January", "February", "March", "April", "May", "June", "July",
      "August", "September", "October", "November", "December">>

\* the day of the month padded to two digits ('MMMM dd, yyyy')
format_padded(date) ==
    MonthNames[date.m] \o " " \o (IF date.d < 10 THEN "0" ELSE "") \o ToString(date.d)
        \o ", " \o ToString(date.y)

\* date-fns format(date, 'MMMM d, yyyy')
format(date) ==
    MonthNames[date.m] \o " " \o ToString(date.d) \o ", " \o ToString(date.y)

\* the values typed or picked in a field
InputValues ==
    [location |-> {"", "Berlin"},
     vertical |-> {"Fintech"},
     companies |-> {"", "Stripe"},
     additionalInfo |-> {"", "CFP open"}]

Fields == DOMAIN InputValues

SelectedRanges ==
    {NoRange,
     DateRange(TRUE, Date(2025, 6, 10), NoDate),
     DateRange(TRUE, Date(2025, 3, 1), Date(2025, 3, 5))}

dateRangeText(dateRange) ==
    IF dateRange.defined /\ dateRange.from # NoDate /\ dateRange.to # NoDate
    THEN "from " \o format(dateRange.from) \o " to " \o format(dateRange.to)
    ELSE IF dateRange.defined /\ dateRange.from # NoDate
    THEN "starting from " \o format(dateRange.from)
    ELSE "upcoming"

\* the two optional clauses in the other order
query_swapped(fd) ==
    "Find " \o fd.vertical \o " events in " \o fd.location \o " "
        \o dateRangeText(fd.dateRange) \o "."
        \o (IF fd.additionalInfo # ""
            THEN " Additional requirements: " \o fd.additionalInfo
            ELSE "")
        \o (IF fd.companies # ""
            THEN " Focus on events where these companies might be involved: "
                     \o fd.companies \o "."
            ELSE "")

query(fd) ==
    "Find " \o fd.vertical \o " events in " \o fd.location \o " "
        \o dateRangeText(fd.dateRange) \o "."
        \o (IF fd.companies # ""
            THEN " Focus on events where these companies might be involved: "
                     \o fd.companies \o "."
            ELSE "")
        \o (IF fd.additionalInfo # ""
            THEN " Additional requirements: " \o fd.additionalInfo
            ELSE "")

-----------------------------------------------------------------------------
(* Initial state: the component is mounted, connectWebSocket has run *)

InitialFormData ==
    [location |-> "", dateRange |-> NoRange, vertical |-> "",
     companies |-> "", additionalInfo |-> ""]

\* the forms of the spec's two examples, as the user left them
FilledForms ==
    {[location |-> "Berlin", dateRange |-> DateRange(TRUE, Date(2025, 3, 1), Date(2025, 3, 5)),
      vertical |-> "Fintech", companies |-> "Stripe", additionalInfo |-> "CFP open"],
     [location |-> "Berlin", dateRange |-> DateRange(TRUE, Date(2025, 6, 10), NoDate),
      vertical |-> "Fintech", companies |-> "", additionalInfo |-> ""]}

\* the session from the moment the socket is created, the form already filled in
Init ==
    /\ mounted = TRUE
    /\ formData \in FilledForms
    /\ result = ""
    /\ isConnected = FALSE
    /\ isLoading = FALSE
    /\ error = ""
    /\ readyState = "CONNECTING"
    /\ sent = <<>>
    /\ outstanding = 0
    /\ cycle = NoCycle
    /\ lastEvent = Event("mount", NoFrame)

-----------------------------------------------------------------------------
(* Socket handlers *)

onopen ==
    /\ readyState = "CONNECTING"
    /\ readyState' = "OPEN"
    /\ isConnected' = TRUE
    /\ error' = ""
    /\ lastEvent' = Event("open", NoFrame)
    /\ cycle' = NoCycle
    /\ UNCHANGED <<formData, result, isLoading, sent, outstanding>>

ConnectionFailed == "Connection failed. Please check if the backend is running."

DefaultError == "An error occurred"

\* data.message with no default behind it
errorText_noDefault(data) ==
    IF data.hasMessage THEN data.message ELSE ""

\* data.message || 'An error occurred': an absent or empty message gives the default
errorText(data) ==
    IF data.hasMessage /\ data.message # "" THEN data.message ELSE DefaultError

\* an accepted fragment appended to the displayed result
streamResult_append(content, previous) ==
    IF finalResponseOf[content] THEN previous \o content ELSE previous

\* fragments accepted only while a cycle is loading
streamResult_whileLoading(content, previous) ==
    IF isLoading /\ finalResponseOf[content] THEN content ELSE previous

\* the displayed result after a stream fragment: setResult(data.content) when
\* the fragment is a final response, the previous result otherwise
streamResult(content, previous) ==
    IF finalResponseOf[content] THEN content ELSE previous

\* start ignored while a cycle is already loading
onmessage_guardedStart(data) ==
    /\ readyState = "OPEN"
    /\ lastEvent' = Event("message", data)
    /\ cycle' = cycleAfter(data)
    /\ IF data.type = "start"
       THEN /\ isLoading' = TRUE
            /\ result' = IF isLoading THEN result ELSE ""
            /\ UNCHANGED error
       ELSE IF data.type = "stream"
       THEN /\ result' = streamResult(data.content, result)
            /\ UNCHANGED <<isLoading, error>>
       ELSE IF data.type = "complete"
       THEN /\ isLoading' = FALSE
            /\ UNCHANGED <<result, error>>
       ELSE IF data.type = "error"
       THEN /\ isLoading' = FALSE
            /\ error' = errorText(data)
            /\ UNCHANGED result
       ELSE UNCHANGED <<isLoading, result, error>>
    /\ outstanding' = IF data.type \in {"complete", "error"} THEN 0 ELSE outstanding
    /\ UNCHANGED <<formData, isConnected, readyState, sent>>

\* a frame of any other type handled like complete
onmessage_elseCompletes(data) ==
    /\ readyState = "OPEN"
    /\ lastEvent' = Event("message", data)
    /\ cycle' = cycleAfter(data)
    /\ IF data.type = "start"
       THEN /\ isLoading' = TRUE
            /\ result' = ""
            /\ UNCHANGED error
       ELSE IF data.type = "stream"
       THEN /\ result' = streamResult(data.content, result)
            /\ UNCHANGED <<isLoading, error>>
       ELSE IF data.type = "error"
       THEN /\ isLoading' = FALSE
            /\ error' = errorText(data)
            /\ UNCHANGED result
       ELSE /\ isLoading' = FALSE
            /\ UNCHANGED <<result, error>>
    /\ outstanding' = IF data.type \in {"complete", "error"} THEN 0 ELSE outstanding
    /\ UNCHANGED <<formData, isConnected, readyState, sent>>

\* an error frame that also clears the displayed result
onmessage_errorClearsResult(data) ==
    /\ readyState = "OPEN"
    /\ lastEvent' = Event("message", data)
    /\ cycle' = cycleAfter(data)
    /\ IF data.type = "start"
       THEN /\ isLoading' = TRUE
            /\ result' = ""
            /\ UNCHANGED error
       ELSE IF data.type = "stream"
       THEN /\ result' = streamResult(data.content, result)
            /\ UNCHANGED <<isLoading, error>>
       ELSE IF data.type = "complete"
       THEN /\ isLoading' = FALSE
            /\ UNCHANGED <<result, error>>
       ELSE IF data.type = "error"
       THEN /\ isLoading' = FALSE
            /\ error' = errorText(data)
            /\ result' = ""
       ELSE UNCHANGED <<isLoading, result, error>>
    /\ outstanding' = IF data.type \in {"complete", "error"} THEN 0 ELSE outstanding
    /\ UNCHANGED <<formData, isConnected, readyState, sent>>

onmessage(data) ==
    /\ readyState = "OPEN"
    /\ lastEvent' = Event("message", data)
    /\ cycle' = cycleAfter(data)
    /\ IF data.type = "start"
       THEN /\ isLoading' = TRUE
            /\ result' = ""
            /\ UNCHANGED error
       ELSE IF data.type = "stream"
       THEN /\ result' = streamResult(data.content, result)
            /\ UNCHANGED <<isLoading, error>>
       ELSE IF data.type = "complete"
       THEN /\ isLoading' = FALSE
            /\ UNCHANGED <<result, error>>
       ELSE IF data.type = "error"
       THEN /\ isLoading' = FALSE
            /\ error' = errorText(data)
            /\ UNCHANGED result
       ELSE UNCHANGED <<isLoading, result, error>>
    /\ outstanding' = IF data.type \in {"complete", "error"} THEN 0 ELSE outstanding
    /\ UNCHANGED <<formData, isConnected, readyState, sent>>

\* a close that also ends the loading state
onclose_clearsLoading ==
    /\ readyState \in {"OPEN", "FAILED"}
    /\ readyState' = "CLOSED"
    /\ isConnected' = FALSE
    /\ isLoading' = FALSE
    /\ lastEvent' = Event("close", NoFrame)
    /\ cycle' = NoCycle
    /\ UNCHANGED <<formData, result, error, sent, outstanding>>

\* a close reported to the user like a failure
onclose_setsError ==
    /\ readyState \in {"OPEN", "FAILED"}
    /\ readyState' = "CLOSED"
    /\ isConnected' = FALSE
    /\ error' = ConnectionFailed
    /\ lastEvent' = Event("close", NoFrame)
    /\ cycle' = NoCycle
    /\ UNCHANGED <<formData, result, isLoading, sent, outstanding>>

\* a close that opens a new socket
onclose_reconnects ==
    /\ readyState \in {"OPEN", "FAILED"}
    /\ readyState' = "CONNECTING"
    /\ isConnected' = FALSE
    /\ lastEvent' = Event("close", NoFrame)
    /\ cycle' = NoCycle
    /\ UNCHANGED <<formData, result, isLoading, error, sent, outstanding>>

onclose ==
    /\ readyState \in {"OPEN", "FAILED"}
    /\ readyState' = "CLOSED"
    /\ isConnected' = FALSE
    /\ lastEvent' = Event("close", NoFrame)
    /\ cycle' = NoCycle
    /\ UNCHANGED <<formData, result, isLoading, error, sent, outstanding>>

\* a transport failure that leaves the connected flag alone
onerror_staysConnected ==
    /\ readyState \in {"CONNECTING", "OPEN"}
    /\ readyState' = "FAILED"
    /\ error' = ConnectionFailed
    /\ isLoading' = FALSE
    /\ lastEvent' = Event("error", NoFrame)
    /\ cycle' = NoCycle
    /\ UNCHANGED <<formData, result, isConnected, sent, outstanding>>

\* a transport failure that leaves the loading state alone
onerror_keepsLoading ==
    /\ readyState \in {"CONNECTING", "OPEN"}
    /\ readyState' = "FAILED"
    /\ error' = ConnectionFailed
    /\ isConnected' = FALSE
    /\ lastEvent' = Event("error", NoFrame)
    /\ cycle' = NoCycle
    /\ UNCHANGED <<formData, result, isLoading, sent, outstanding>>

onerror ==
    /\ readyState \in {"CONNECTING", "OPEN"}
    /\ readyState' = "FAILED"
    /\ error' = ConnectionFailed
    /\ isConnected' = FALSE
    /\ isLoading' = FALSE
    /\ lastEvent' = Event("error", NoFrame)
    /\ cycle' = NoCycle
    /\ UNCHANGED <<formData, result, sent, outstanding>>

-----------------------------------------------------------------------------
(* Form handlers *)

handleInputChange(field, value) ==
    /\ formData' = [formData EXCEPT ![field] = value]
    /\ lastEvent' = Event("input", NoFrame)
    /\ UNCHANGED <<result, isConnected, isLoading, error, readyState, sent, outstanding,
                   cycle>>

onSelect(range) ==
    /\ formData' = [formData EXCEPT !.dateRange = range]
    /\ lastEvent' = Event("input", NoFrame)
    /\ UNCHANGED <<result, isConnected, isLoading, error, readyState, sent, outstanding,
                   cycle>>

\* WebSocket.send: a message handed to a socket that is closing or closed is dropped
send(message) ==
    IF readyState = "OPEN" THEN Append(sent, message) ELSE sent

\* a dropped submission that ends the loading state
handleSubmit_dropClearsLoading ==
    /\ Len(sent) < MaxSent
    /\ lastEvent' = Event("submit", NoFrame)
    /\ cycle' = NoCycle
    /\ IF ~isConnected \/ isLoading
       THEN /\ isLoading' = FALSE
            /\ UNCHANGED <<sent, outstanding>>
       ELSE /\ sent' = send([query |-> query(formData)])
            /\ outstanding' = outstanding + Len(sent') - Len(sent)
            /\ UNCHANGED isLoading
    /\ UNCHANGED <<formData, result, isConnected, error, readyState>>

\* the gate without its isLoading half
handleSubmit_noLoadingGate ==
    /\ Len(sent) < MaxSent
    /\ lastEvent' = Event("submit", NoFrame)
    /\ cycle' = NoCycle
    /\ IF ~isConnected
       THEN UNCHANGED <<sent, outstanding>>
       ELSE /\ sent' = send([query |-> query(formData)])
            /\ outstanding' = outstanding + Len(sent') - Len(sent)
    /\ UNCHANGED <<formData, result, isConnected, isLoading, error, readyState>>

handleSubmit ==
    /\ Len(sent) < MaxSent
    /\ lastEvent' = Event("submit", NoFrame)
    /\ cycle' = NoCycle
    /\ IF ~isConnected \/ isLoading
       THEN UNCHANGED <<sent, outstanding>>
       ELSE /\ sent' = send([query |-> query(formData)])
            /\ outstanding' = outstanding + Len(sent') - Len(sent)
    /\ UNCHANGED <<formData, result, isConnected, isLoading, error, readyState>>

-----------------------------------------------------------------------------
(* Teardown: the cleanup of the mount effect closes the socket.  The state  *)
(* of an unmounted component is gone and its setters do nothing, so no      *)
(* handler is followed after the unmount.                                   *)

unmount ==
    /\ mounted
    /\ mounted' = FALSE
    /\ readyState' = IF readyState \in {"CONNECTING", "OPEN"} THEN "CLOSING" ELSE readyState
    /\ lastEvent' = Event("unmount", NoFrame)
    /\ UNCHANGED <<formData, result, isConnected, isLoading, error, sent, outstanding, cycle>>

-----------------------------------------------------------------------------

Next ==
    \/ mounted /\ onopen /\ UNCHANGED mounted
    \/ mounted /\ (\E data \in Frames : onmessage(data)) /\ UNCHANGED mounted
    \/ mounted /\ onclose /\ UNCHANGED mounted
    \/ mounted /\ onerror /\ UNCHANGED mounted
    \/ mounted /\ handleSubmit /\ UNCHANGED mounted
    \/ unmount

Spec == Init /\ [][Next]_vars

-----------------------------------------------------------------------------
(* The user's path through the form: the component as constructed, the      *)
(* fields edited one at a time, submission through the submit button.       *)

\* the button without the date-from test
submitDisabled_noDateTest ==
    \/ ~isConnected
    \/ isLoading
    \/ formData.location = ""
    \/ formData.vertical = ""

\* disabled={...} of the submit button
submitDisabled ==
    \/ ~isConnected
    \/ isLoading
    \/ formData.location = ""
    \/ ~(formData.dateRange.defined /\ formData.dateRange.from # NoDate)
    \/ formData.vertical = ""

\* <form onSubmit={handleSubmit}> submitted by its button
submitClick ==
    /\ ~submitDisabled
    /\ handleSubmit

\* the frames that start and end a cycle
ControlFrames == {f \in Frames : f.type \in {"start", "complete"}}

InitForm ==
    /\ mounted = TRUE
    /\ formData = InitialFormData
    /\ result = ""
    /\ isConnected = FALSE
    /\ isLoading = FALSE
    /\ error = ""
    /\ readyState = "CONNECTING"
    /\ sent = <<>>
    /\ outstanding = 0
    /\ cycle = NoCycle
    /\ lastEvent = Event("mount", NoFrame)

NextForm ==
    \/ mounted /\ onopen /\ UNCHANGED mounted
    \/ mounted /\ (\E data \in ControlFrames : onmessage(data)) /\ UNCHANGED mounted
    \/ mounted /\ UNCHANGED mounted
          /\ \E field \in Fields : \E value \in InputValues[field] :
                 handleInputChange(field, value)
    \/ mounted /\ (\E range \in SelectedRanges : onSelect(range)) /\ UNCHANGED mounted
    \/ mounted /\ submitClick /\ UNCHANGED mounted

SpecForm == InitForm /\ [][NextForm]_vars

-----------------------------------------------------------------------------
(* The query composer on its inputs: handleSubmit applied to every form the *)
(* EventFormData type admits, a range with to but no from included.         *)

ComposeRanges == SelectedRanges \cup {DateRange(TRUE, NoDate, Date(2025, 3, 5))}

ComposeForms ==
    [location : {"", "Berlin"}, dateRange : ComposeRanges, vertical : {"", "Fintech"},
     companies : {"", "Stripe"}, additionalInfo : {"", "CFP open"}]

InitCompose ==
    /\ mounted = TRUE
    /\ formData \in ComposeForms
    /\ result = ""
    /\ isConnected = FALSE
    /\ isLoading = FALSE
    /\ error = ""
    /\ readyState = "CONNECTING"
    /\ sent = <<>>
    /\ outstanding = 0
    /\ cycle = NoCycle
    /\ lastEvent = Event("mount", NoFrame)

NextCompose ==
    \/ mounted /\ onopen /\ UNCHANGED mounted
    \/ mounted /\ handleSubmit /\ UNCHANGED mounted

SpecCompose == InitCompose /\ [][NextCompose]_vars

-----------------------------------------------------------------------------
(* Properties *)

lastFrame == lastEvent.frame

handled(type) == lastEvent.kind = "message" /\ lastFrame.type = type

hasEscape(content) == \E e \in Escapes : includes(content, e)

hasNoise(content) == \E m \in NoiseMarkers : includes(content, m)

\* C1: at most one query is outstanding: no second query is sent before a
\* complete or error frame has been handled for the first, the window between
\* the send and its start frame included.
C1_OneOutstandingQuery == outstanding <= 1

\* C2: the displayed result never contains one of the noise markers
\* 'Tool Calls:', 'call_', '===', 'Agent', 'Running'.
C2_NoToolCallTraces == ~hasNoise(result)

C4_ShortDiscarded ==
    [][(/\ lastEvent'.kind = "message"
        /\ lastEvent'.frame.type = "stream"
        /\ Len(lastEvent'.frame.content) <= LengthThreshold
        /\ ~hasEscape(lastEvent'.frame.content))
       => UNCHANGED uiState]_vars

C4_Witness ==
    /\ handled("stream")
    /\ Len(lastFrame.content) = LengthThreshold
    /\ ~hasEscape(lastFrame.content)
    /\ ~hasNoise(lastFrame.content)
    /\ result # ""
    /\ result # lastFrame.content

\* C5: a stream fragment longer than 100 characters with none of the five
\* noise markers is accepted, and the result is then that fragment alone.
C5_LongCleanAccepted ==
    (/\ handled("stream")
     /\ Len(lastFrame.content) > LengthThreshold
     /\ ~hasNoise(lastFrame.content))
    => result = lastFrame.content

C5_Witness ==
    /\ handled("stream")
    /\ Len(lastFrame.content) = LengthThreshold + 1
    /\ ~hasNoise(lastFrame.content)
    /\ ~hasEscape(lastFrame.content)
    /\ result = lastFrame.content

\* C6: after start, any number of stream frames, then complete, the result is
\* the last fragment the classifier accepted, alone, or the empty string if it
\* accepted none, and isLoading is false.
C6_CycleResult ==
    cycle.phase = "completed" => (result = cycle.accepted /\ ~isLoading)

C6_Witness ==
    /\ cycle.phase = "completed"
    /\ handled("complete")
    /\ cycle.accepted # ""
    /\ result = cycle.accepted

\* C7: after a start frame is handled the error field is the empty string,
\* whatever error was displayed before, and result is empty.
C7_StartClearsError == handled("start") => (error = "" /\ result = "")

\* C8: a start frame handled in any state sets result to the empty string and
\* isLoading to true.
C8_StartRestarts == handled("start") => (result = "" /\ isLoading)

C8_Witness ==
    /\ handled("start")
    /\ error = DefaultError
    /\ outstanding > 0
    /\ result = ""
    /\ isLoading

\* C9: isLoading turns false only when a complete frame, an error frame or a
\* transport failure is handled; stream frames, other frames, a close and a
\* submit leave a true isLoading true.
C9_LoadingUntilEnd ==
    [][(isLoading /\ ~isLoading')
       => \/ (lastEvent'.kind = "message" /\ lastEvent'.frame.type \in {"complete", "error"})
          \/ lastEvent'.kind = "error"]_vars

C9_Witness ==
    /\ isLoading
    /\ lastEvent.kind = "close"
    /\ readyState = "CLOSED"

\* C10: isConnected is true exactly when the socket is in the state onopen
\* puts it in and every close or failure takes it out of: an open event has
\* been handled and no close or failure since (while the component is mounted).
C10_ConnectedTracksChannel == mounted => (isConnected <=> readyState = "OPEN")

C10_Witness ==
    /\ ~isConnected
    /\ readyState = "FAILED"
    /\ Len(sent) > 0

C12_ErrorKeepsResult ==
    [][(lastEvent'.kind = "message" /\ lastEvent'.frame.type = "error")
       => UNCHANGED <<result, isConnected>>]_vars

C12_Witness ==
    /\ handled("error")
    /\ result # ""
    /\ isConnected
    /\ error # ""

\* C13: a transport failure in any state sets error to the fixed string,
\* isConnected and isLoading to false and leaves result unchanged.
C13_TransportFailure ==
    [][lastEvent'.kind = "error"
       => /\ error' = "Connection failed. Please check if the backend is running."
          /\ ~isConnected'
          /\ ~isLoading'
          /\ result' = result]_vars

C13_Witness ==
    /\ lastEvent.kind = "error"
    /\ result # ""
    /\ Len(sent) > 0
    /\ error = ConnectionFailed
    /\ ~isConnected
    /\ ~isLoading

\* C14: a channel close sets isConnected to false and leaves error, result
\* and isLoading as they were.
C14_CloseOnlyDisconnects ==
    [][lastEvent'.kind = "close"
       => (~isConnected' /\ UNCHANGED <<error, result, isLoading>>)]_vars

C14_Witness ==
    /\ lastEvent.kind = "close"
    /\ ~isConnected
    /\ isLoading
    /\ result # ""
    /\ error = DefaultError

\* the socket has closed or failed
channelDown == readyState \in {"FAILED", "CLOSED"}

C16_SubmitGate ==
    [][lastEvent'.kind = "submit"
       => /\ sent' = IF isConnected /\ ~isLoading
                     THEN Append(sent, [query |-> query(formData)])
                     ELSE sent
          /\ UNCHANGED uiState]_vars

C16_Witness ==
    /\ lastEvent.kind = "submit"
    /\ isConnected
    /\ isLoading
    /\ sent = <<>>

\* acceptance by the fragment's text alone
acceptedByText(content) ==
    hasEscape(content) \/ (Len(content) > LengthThreshold /\ ~hasNoise(content))

\* the fragments of the model that their text alone accepts
AcceptedFragments == {f \in Fragments : acceptedByText(f)}

\* C20: whether a stream fragment replaces result depends on its text alone,
\* not on isLoading or any other UI state, and a stream frame never changes
\* isLoading, isConnected or error.
C20_StreamIgnoresState ==
    [][(lastEvent'.kind = "message" /\ lastEvent'.frame.type = "stream")
       => /\ result' = IF lastEvent'.frame.content \in AcceptedFragments
                       THEN lastEvent'.frame.content ELSE result
          /\ UNCHANGED <<isLoading, isConnected, error>>]_vars

C20_Witness ==
    /\ handled("stream")
    /\ ~isLoading
    /\ error # ""
    /\ result = lastFrame.content
    /\ result # ""

\* C17: a query message reaches the channel only when location, the
\* date-range from and vertical are all non-empty (checked on the user's path
\* through the submit button).
C17_RequiredFields ==
    [][sent' # sent
       => /\ formData.location # ""
          /\ formData.dateRange.defined /\ formData.dateRange.from # NoDate
          /\ formData.vertical # ""]_vars

C17_Witness ==
    /\ lastEvent.kind = "submit"
    /\ Len(sent) = 1
    /\ formData.location # ""
    /\ formData.dateRange.from # NoDate
    /\ formData.vertical # ""
    /\ formData.companies = ""

\* the dates of the model as 'Month D, YYYY'
rendered(date) ==
    CASE date = Date(2025, 6, 10) -> "June 10, 2025"
      [] date = Date(2025, 3, 1) -> "March 1, 2025"
      [] date = Date(2025, 3, 5) -> "March 5, 2025"

hasFrom(range) == range.defined /\ range.from # NoDate

hasTo(range) == range.defined /\ range.to # NoDate

expectedDateClause(range) ==
    IF hasFrom(range) /\ hasTo(range)
    THEN "from " \o rendered(range.from) \o " to " \o rendered(range.to)
    ELSE IF hasFrom(range) THEN "starting from " \o rendered(range.from)
    ELSE "upcoming"

startsWith(s, prefix) ==
    Len(s) >= Len(prefix) /\ SubSeq(s, 1, Len(prefix)) = prefix

lastQuery == sent[Len(sent)].query

\* C18: the date clause of a composed query is 'from {from} to {to}' with
\* both dates, 'starting from {from}' with from only and 'upcoming' otherwise
\* (to without from included), the dates rendered as 'Month D, YYYY'.
C18_DateClause ==
    [][sent' # sent
       => startsWith(lastQuery',
                     "Find " \o formData.vertical \o " events in " \o formData.location
                         \o " " \o expectedDateClause(formData.dateRange) \o ".")]_vars

C18_Witness ==
    /\ lastEvent.kind = "submit"
    /\ Len(sent) = 1
    /\ formData.location = "Berlin"
    /\ formData.vertical = "Fintech"
    /\ formData.dateRange = DateRange(TRUE, Date(2025, 6, 10), NoDate)
    /\ formData.companies = ""
    /\ formData.additionalInfo = ""
    /\ lastQuery = "Find Fintech events in Berlin starting from June 10, 2025."

BerlinExample ==
    [location |-> "Berlin", dateRange |-> DateRange(TRUE, Date(2025, 3, 1), Date(2025, 3, 5)),
     vertical |-> "Fintech", companies |-> "Stripe", additionalInfo |-> "CFP open"]

BerlinQuery ==
    "Find Fintech events in Berlin from March 1, 2025 to March 5, 2025. Focus on events where these companies might be involved: Stripe. Additional requirements: CFP open"

\* C19: a composed query is the base sentence, then the companies clause only
\* when companies is non-empty, then the additional-requirements clause only
\* when additionalInfo is non-empty, and nothing else; the Berlin example
\* gives exactly the spec's string.
C19_ComposedQuery ==
    [][sent' # sent
       => /\ lastQuery' =
                "Find " \o formData.vertical \o " events in " \o formData.location
                    \o " " \o expectedDateClause(formData.dateRange) \o "."
                    \o (IF formData.companies = "" THEN ""
                        ELSE " Focus on events where these companies might be involved: "
                                 \o formData.companies \o ".")
                    \o (IF formData.additionalInfo = "" THEN ""
                        ELSE " Additional requirements: " \o formData.additionalInfo)
          /\ formData = BerlinExample => lastQuery' = BerlinQuery]_vars

C19_Witness ==
    /\ lastEvent.kind = "submit"
    /\ Len(sent) = 1
    /\ formData = BerlinExample
    /\ lastQuery = BerlinQuery

\* the channel has closed, with no transport failure, while a cycle was loading
stuck == readyState = "CLOSED" /\ isLoading /\ ~isConnected

\* C21: a close while isLoading is true leaves the session stuck: from then
\* on isLoading stays true, isConnected stays false, the socket stays closed
\* and no submission sends a message.
C21_StuckAfterClose ==
    [][/\ (lastEvent'.kind = "close" /\ isLoading) => stuck'
       /\ stuck => (stuck' /\ sent' = sent)]_vars

C21_Witness ==
    /\ stuck
    /\ lastEvent.kind = "submit"
    /\ Len(sent) = 1
    /\ error = ""

KnownTypes == {"start", "stream", "complete", "error"}

\* C22: a frame whose type is none of start, stream, complete, error leaves
\* isConnected, isLoading, result and error unchanged, and a complete frame
\* changes nothing but isLoading.
C22_OtherFrames ==
    [][lastEvent'.kind = "message"
       => /\ lastEvent'.frame.type \notin KnownTypes => UNCHANGED uiState
          /\ lastEvent'.frame.type = "complete"
                 => (~isLoading' /\ UNCHANGED <<isConnected, result, error>>)]_vars

C22_Witness ==
    /\ lastEvent.kind = "message"
    /\ lastFrame.type \notin KnownTypes
    /\ isLoading
    /\ result # ""
    /\ error # ""

====
